---------------------------- MODULE Spec2Model ----------------------------
(***************************************************************************)
(* The HTTP API of the flight-booking chatbot: the session middleware, the *)
(* reservation, chat and history routes, and the tools that the chat       *)
(* route hands to the text generation.  Requests are handled concurrently; *)
(* a request advances one await point at a time.                           *)
(***************************************************************************)
EXTENDS Naturals, Sequences, FiniteSets

\* ------------------------------------------------------------------ bounds
MaxInFlight == 2      \* request contexts alive at the same time
MaxRequests == 3      \* requests served in one behaviour
MaxChatRequests == 2  \* chat POSTs served in one behaviour of SpecChat
MaxReservations == 2  \* distinct reservation ids
MaxMsgs == 2          \* messages in one chat POST body
MaxToolCalls == 1     \* tool executions during one generation

Reqs == 1..MaxInFlight
ResIds == 1..MaxReservations
ChatIds == {"c1"}
Users == {"A", "B"}
Prices == {100}

VARIABLES
  req,            \* per request context: route, position, locals, response
  reservations,   \* the Reservation table
  chats,          \* the Chat table (the owner of each stored chat)
  usePrefix,      \* whether the router applies use("/") to "/:id" routes too
  started,        \* requests accepted so far
  updateCalls     \* per reservation: updateReservation invocations so far

vars == <<req, reservations, chats, usePrefix, started, updateCalls>>

\* ---------------------------------------------------------------- sessions
\* Session | null of next-auth, and the unset request variable.
Undefined == [kind |-> "undefined", user |-> FALSE, id |-> ""]
Null == [kind |-> "null", user |-> FALSE, id |-> ""]
SessionOf(hasUser, uid) == [kind |-> "session", user |-> hasUser, id |-> uid]
Sessions ==
  {Null, SessionOf(FALSE, ""), SessionOf(TRUE, "")}
    \cup {SessionOf(TRUE, u) : u \in Users}

\* !session
NoSession(s) == s.kind # "session"
\* !session || !session.user
NoSessionUser(s) == NoSession(s) \/ ~s.user

\* ------------------------------------------------------------------ strings
\* A string is the tuple of its characters.
Vercel == <<"v", "e", "r", "c", "e", "l">>

Lower(ch) ==
  CASE ch = "V" -> "v"
    [] ch = "E" -> "e"
    [] ch = "R" -> "r"
    [] ch = "C" -> "c"
    [] ch = "L" -> "l"
    [] OTHER -> ch

toLowerCase(s) == [i \in 1..Len(s) |-> Lower(s[i])]

\* PATCH bodies: the parsed JSON's magicWord, or none.
NoMagicWord == [present |-> FALSE, word |-> <<>>]
MagicWord(w) == [present |-> TRUE, word |-> w]
Bodies ==
  {NoMagicWord}
    \cup {MagicWord(w) : w \in
           {Vercel,
            <<"V", "E", "R", "C", "E", "L">>,
            <<"V", "e", "r", "c", "e", "l">>,
            <<"v", "e", "r", "c", "e">>}}

\* ------------------------------------------------------------------ storage
NoRow == [exists |-> FALSE]
ReservationRow(uid, paid, price) ==
  [exists |-> TRUE, userId |-> uid, hasCompletedPayment |-> paid,
   totalPriceInUSD |-> price]
ChatRow(uid) == [exists |-> TRUE, userId |-> uid]

getReservationById(id) == reservations[id]
getChatById(id) == chats[id]
createReservation(id, uid, price) ==
  [reservations EXCEPT ![id] = ReservationRow(uid, FALSE, price)]
updateReservation(id, paid) ==
  [reservations EXCEPT ![id].hasCompletedPayment = paid]
saveChat(id, uid) == [chats EXCEPT ![id] = ChatRow(uid)]
deleteChatById(id) == [chats EXCEPT ![id] = NoRow]

\* ------------------------------------------------------------------ routing
Kinds == {"chatPost", "chatDelete", "historyGet", "reservationGet",
          "reservationPatch"}
RoutePath(kind) == IF kind \in {"chatPost", "historyGet"} THEN "/" ELSE "/:id"
\* Each router registers the middleware with use("/", sessionMiddleware).
MiddlewarePath == "/"
MiddlewareApplies(kind) == RoutePath(kind) = MiddlewarePath \/ usePrefix

\* ----------------------------------------------------------------- requests
NoBody == [t |-> "none"]
\* What a tool execution of the generation returned.
ToolEvent(tool) ==
  [tool |-> tool, session |-> Undefined, id |-> 0, persisted |-> FALSE,
   price |-> 0, error |-> "", hasCompletedPayment |-> FALSE]

Idle ==
  [kind |-> "none", pc |-> "idle", id |-> 0, chatId |-> "",
   session |-> Undefined, authCalls |-> 0,
   status |-> 0, body |-> NoBody, fetched |-> NoRow, json |-> NoMagicWord,
   fetchedChat |-> NoRow, messages |-> <<>>, coreMessages |-> <<>>,
   toolCalls |-> 0, lastTool |-> ToolEvent("none"), finished |-> FALSE, responseMessages |-> <<>>,
   saved |-> <<>>, writes |-> <<>>]

\* auth(): what the provider can resolve for a request on its first call, and
\* on a later call of the same request (the same session, or none any more).
auth == Sessions
authAgain(first) == {first, Null}

Respond(q, status, body) ==
  [q EXCEPT !.pc = "done", !.status = status, !.body = body]

Init ==
  /\ req = [r \in Reqs |-> Idle]
  /\ reservations = [i \in ResIds |-> NoRow]
  /\ chats = [c \in ChatIds |-> NoRow]
  /\ usePrefix \in BOOLEAN
  /\ started = 0
  /\ updateCalls = [i \in ResIds |-> 0]

\* sessionMiddleware: const session = await auth(); c.set("session", session)
sessionMiddleware(q, session) ==
  [q EXCEPT !.session = session, !.authCalls = @ + 1]

\* A request is routed: its context is fresh, the middleware registered for
\* its path runs, and its handler is next.
Dispatch(r, kinds, max) ==
  /\ req[r].pc \in {"idle", "done"}
  /\ \A q \in Reqs : q < r => req[q].pc \notin {"idle", "done"}
  /\ started < max
  /\ \E kind \in kinds, id \in ResIds, cid \in ChatIds, session \in auth :
       LET q == [Idle EXCEPT !.kind = kind, !.pc = "handler",
                             !.id = IF kind \in {"reservationGet", "reservationPatch"}
                                      THEN id ELSE 0,
                             !.chatId = IF kind \in {"chatPost", "chatDelete"}
                                          THEN cid ELSE ""]
       IN req' = [req EXCEPT ![r] =
                    IF MiddlewareApplies(kind) THEN sessionMiddleware(q, session)
                    ELSE q]
  /\ started' = started + 1
  /\ UNCHANGED <<reservations, chats, usePrefix, updateCalls>>

\* ------------------------------------------------------- reservation routes
\* The outcome of the try block of GET /:id; an HTTPException thrown inside
\* the block reaches its catch like any other error.
ReservationGetTry(row, session) ==
  IF ~row.exists THEN "throw"                          \* reservation.userId of no row
  ELSE IF row.userId # session.id THEN "throw 401"
  ELSE "json"

CatchAll(outcome) ==
  IF outcome \in {"throw", "throw 400", "throw 401", "throw 404", "throw 409"}
    THEN 500 ELSE 200

\* reservation.get("/:id")
ReservationGet(r) ==
  /\ req[r].pc = "handler"
  /\ req[r].kind = "reservationGet"
  /\ LET q == req[r]
         row == getReservationById(q.id)
         out == ReservationGetTry(row, q.session)
     IN req' = [req EXCEPT ![r] =
                  IF q.id = 0 THEN Respond(q, 404, NoBody)
                  ELSE IF NoSessionUser(q.session) THEN Respond(q, 401, NoBody)
                  ELSE IF CatchAll(out) = 500
                    THEN Respond([q EXCEPT !.fetched = row], 500, NoBody)
                  ELSE Respond([q EXCEPT !.fetched = row], 200,
                               [t |-> "reservation", id |-> q.id, row |-> row])]
  /\ UNCHANGED <<reservations, chats, usePrefix, started, updateCalls>>

\* Mutant of ReservationPatchTry: the magic word is not compared.
ReservationPatchTry_NoWordCheck(row, session, json) ==
  IF ~row.exists THEN "throw 404"
  ELSE IF row.userId # session.id THEN "throw 401"
  ELSE IF row.hasCompletedPayment THEN "throw 409"
  ELSE IF ~json.present THEN "throw"
  ELSE "update"

\* The checks of the try block of PATCH /:id, in the order of the code.
ReservationPatchTry(row, session, json) ==
  IF ~row.exists THEN "throw 404"
  ELSE IF row.userId # session.id THEN "throw 401"
  ELSE IF row.hasCompletedPayment THEN "throw 409"
  ELSE IF ~json.present THEN "throw"                   \* undefined.toLowerCase()
  ELSE IF toLowerCase(json.word) # Vercel THEN "throw 400"
  ELSE "update"

\* reservation.patch("/:id"), up to the call of updateReservation
ReservationPatchFetch(r) ==
  /\ req[r].pc = "handler"
  /\ req[r].kind = "reservationPatch"
  /\ \E json \in Bodies :
       LET q == req[r]
           row == getReservationById(q.id)
           out == ReservationPatchTry(row, q.session, json)
           read == [q EXCEPT !.fetched = row,
                             !.json = IF row.exists /\ row.userId = q.session.id
                                         /\ ~row.hasCompletedPayment
                                        THEN json ELSE NoMagicWord]
       IN req' = [req EXCEPT ![r] =
                    IF q.id = 0 THEN Respond(q, 404, NoBody)
                    ELSE IF NoSessionUser(q.session) THEN Respond(q, 401, NoBody)
                    ELSE IF CatchAll(out) = 500 THEN Respond(read, 500, NoBody)
                    ELSE [read EXCEPT !.pc = "fetched"]]
  /\ UNCHANGED <<reservations, chats, usePrefix, started, updateCalls>>

\* reservation.patch("/:id"): updateReservation({id, hasCompletedPayment: true})
ReservationPatchUpdate(r) ==
  /\ req[r].pc = "fetched"
  /\ req[r].kind = "reservationPatch"
  /\ LET q == req[r]
         updated == updateReservation(q.id, TRUE)
     IN /\ reservations' = updated
        /\ req' = [req EXCEPT ![r] =
                     Respond([q EXCEPT !.writes = Append(@, "updateReservation")],
                             200,
                             [t |-> "reservation", id |-> q.id,
                              row |-> updated[q.id]])]
        /\ updateCalls' = [updateCalls EXCEPT ![q.id] = @ + 1]
  /\ UNCHANGED <<chats, usePrefix, started>>

\* ---------------------------------------------------------------- chat route
\* A message of the validated body: role and content.
Message(role, content) == [role |-> role, content |-> content]
MessageValues ==
  {Message("user", <<>>), Message("user", <<"h", "i">>),
   Message("assistant", <<"o", "k">>)}
MessageLists == UNION {[1..n -> MessageValues] : n \in 0..MaxMsgs}
\* responseMessages of a finished generation (a step that only calls a tool
\* has no text).
Responses == {<<Message("assistant", <<"o", "k">>)>>, <<Message("assistant", <<>>)>>}

\* convertToCoreMessages on user and assistant text messages
convertToCoreMessages(messages) ==
  [i \in 1..Len(messages) |->
     [role |-> messages[i].role, content |-> messages[i].content]]

\* Mutant of filterNonEmpty: nothing is filtered out.
filterNonEmpty_KeepAll(messages) == messages

\* .filter((message) => message.content.length > 0)
RECURSIVE filterNonEmpty(_)
filterNonEmpty(messages) ==
  IF messages = <<>> THEN <<>>
  ELSE IF Len(Head(messages).content) > 0
    THEN <<Head(messages)>> \o filterNonEmpty(Tail(messages))
  ELSE filterNonEmpty(Tail(messages))

coreMessages(messages) == filterNonEmpty(convertToCoreMessages(messages))

\* chat.post("/"): the validator, the session check, and the start of the
\* stream
ChatPostHandler(r, lists) ==
  /\ req[r].pc = "handler"
  /\ req[r].kind = "chatPost"
  /\ \E valid \in BOOLEAN, messages \in lists :
       LET q == req[r]
       IN req' = [req EXCEPT ![r] =
                    IF ~valid THEN Respond(q, 400, [t |-> "validation"])
                    ELSE IF NoSession(q.session) THEN Respond(q, 401, NoBody)
                    ELSE [q EXCEPT !.pc = "generating", !.status = 200,
                                   !.body = [t |-> "stream"],
                                   !.messages = messages,
                                   !.coreMessages = coreMessages(messages)]]
  /\ UNCHANGED <<reservations, chats, usePrefix, started, updateCalls>>

CanCallTool(r) ==
  /\ req[r].pc = "generating"
  /\ req[r].toolCalls < MaxToolCalls

\* generateUUID(): an id no stored reservation has (ids are interchangeable:
\* the least free one)
FreshIds == {i \in ResIds : ~reservations[i].exists}
generateUUID == CHOOSE i \in FreshIds : \A j \in FreshIds : i <= j

\* Mutant of CreateReservationPersists: the user's id is not required.
CreateReservationPersists_AnyUser(session) ==
  session.kind = "session" /\ session.user

\* if (session && session.user && session.user.id)
CreateReservationPersists(session) ==
  session.kind = "session" /\ session.user /\ session.id # ""

NotSignedIn == "User is not signed in to perform this action!"

\* tools.createReservation.execute
ToolCreateReservation(r) ==
  /\ CanCallTool(r)
  /\ FreshIds # {}
  /\ \E price \in Prices, session \in authAgain(req[r].session) :
       LET q == [req[r] EXCEPT !.authCalls = @ + 1, !.toolCalls = @ + 1]
           id == generateUUID
           ev == [ToolEvent("createReservation") EXCEPT !.session = session]
       IN IF CreateReservationPersists(session)
            THEN /\ reservations' = createReservation(id, session.id, price)
                 /\ req' = [req EXCEPT ![r] =
                              [q EXCEPT !.lastTool =
                                          [ev EXCEPT !.id = id, !.persisted = TRUE,
                                                     !.price = price],
                                        !.writes = Append(@, "createReservation")]]
            ELSE /\ reservations' = reservations
                 /\ req' = [req EXCEPT ![r] =
                              [q EXCEPT !.lastTool = [ev EXCEPT !.error = NotSignedIn]]]
  /\ UNCHANGED <<chats, usePrefix, started, updateCalls>>

\* tools.verifyPayment.execute
ToolVerifyPayment(r) ==
  /\ CanCallTool(r)
  /\ \E reservationId \in ResIds :
       LET row == getReservationById(reservationId)
           ev == [ToolEvent("verifyPayment") EXCEPT !.id = reservationId]
       IN req' = [req EXCEPT ![r] =
                    [@ EXCEPT !.toolCalls = @ + 1,
                              !.lastTool =
                                IF ~row.exists THEN [ev EXCEPT !.error = "throw"]
                                ELSE IF row.hasCompletedPayment
                                  THEN [ev EXCEPT !.hasCompletedPayment = TRUE]
                                ELSE [ev EXCEPT !.hasCompletedPayment = FALSE]]]
  /\ UNCHANGED <<reservations, chats, usePrefix, started, updateCalls>>

\* The tools that touch neither the session nor storage.
StatelessTools ==
  {"getWeather", "displayFlightStatus", "searchFlights", "selectSeats",
   "authorizePayment", "displayBoardingPass"}

ToolStateless(r, names) ==
  /\ CanCallTool(r)
  /\ \E tool \in names :
       req' = [req EXCEPT ![r] =
                 [@ EXCEPT !.toolCalls = @ + 1, !.lastTool = ToolEvent(tool)]]
  /\ UNCHANGED <<reservations, chats, usePrefix, started, updateCalls>>

\* The arguments of the saveChat call of onFinish.
SaveChatArgs(q, responseMessages) ==
  [id |-> q.chatId, userId |-> q.session.id,
   messages |-> q.coreMessages \o responseMessages]

\* if (session.user && session.user.id)
OnFinishSaves(session) == session.user /\ session.id # ""

\* onFinish: the generation has ended; saveChat may throw, which is caught.
onFinish(r, responses) ==
  /\ req[r].pc = "generating"
  /\ \E responseMessages \in responses, ok \in BOOLEAN :
       LET q == [req[r] EXCEPT !.pc = "done", !.finished = TRUE,
                               !.responseMessages = responseMessages]
       IN IF OnFinishSaves(q.session)
            THEN /\ req' = [req EXCEPT ![r] =
                              [q EXCEPT !.saved = Append(@,
                                          [args |-> SaveChatArgs(q, responseMessages),
                                           ok |-> ok]),
                                        !.writes = Append(@, "saveChat")]]
                 /\ chats' = IF ok THEN saveChat(q.chatId, q.session.id) ELSE chats
            ELSE /\ req' = [req EXCEPT ![r] = q]
                 /\ chats' = chats
  /\ UNCHANGED <<reservations, usePrefix, started, updateCalls>>

\* The stream ends early (the generation fails): onFinish is not called.
StreamAborts(r) ==
  /\ req[r].pc = "generating"
  /\ req' = [req EXCEPT ![r].pc = "done"]
  /\ UNCHANGED <<reservations, chats, usePrefix, started, updateCalls>>

\* The outcome of the try block of DELETE /:id before deleteChatById.
ChatDeleteTry(row, session) ==
  IF ~row.exists THEN "throw"                          \* chat.userId of no row
  ELSE IF row.userId # session.id THEN "throw 401"
  ELSE "delete"

\* chat.delete("/:id"), up to the call of deleteChatById
ChatDeleteFetch(r) ==
  /\ req[r].pc = "handler"
  /\ req[r].kind = "chatDelete"
  /\ LET q == req[r]
         row == getChatById(q.chatId)
         out == ChatDeleteTry(row, q.session)
     IN req' = [req EXCEPT ![r] =
                  IF q.chatId = "" THEN Respond(q, 404, NoBody)
                  ELSE IF NoSessionUser(q.session) THEN Respond(q, 401, NoBody)
                  ELSE IF CatchAll(out) = 500
                    THEN Respond([q EXCEPT !.fetchedChat = row], 500, NoBody)
                  ELSE [q EXCEPT !.fetchedChat = row, !.pc = "fetched"]]
  /\ UNCHANGED <<reservations, chats, usePrefix, started, updateCalls>>

\* chat.delete("/:id"): deleteChatById({id}) and the success body
ChatDeleteDelete(r) ==
  /\ req[r].pc = "fetched"
  /\ req[r].kind = "chatDelete"
  /\ chats' = deleteChatById(req[r].chatId)
  /\ req' = [req EXCEPT ![r] =
               Respond([req[r] EXCEPT !.writes = Append(@, "deleteChatById")],
                       200, [t |-> "text"])]
  /\ UNCHANGED <<reservations, usePrefix, started, updateCalls>>

\* ------------------------------------------------------------- history route
\* history.get("/"): the placeholder list
HistoryGet(r) ==
  /\ req[r].pc = "handler"
  /\ req[r].kind = "historyGet"
  /\ req' = [req EXCEPT ![r] =
               IF NoSessionUser(req[r].session) THEN Respond(req[r], 401, NoBody)
               ELSE Respond(req[r], 200, [t |-> "dummyChats"])]
  /\ UNCHANGED <<reservations, chats, usePrefix, started, updateCalls>>

\* -------------------------------------------------------- specifications
\* The whole API, requests in flight together.  The chat body, the response
\* text and the stateless tool are one sample each.
SampleLists == {<<Message("user", <<"h", "i">>)>>}
SampleResponses == {<<Message("assistant", <<"o", "k">>)>>}

Next ==
  \E r \in Reqs :
    \/ Dispatch(r, Kinds, MaxRequests)
    \/ ReservationGet(r)
    \/ ReservationPatchFetch(r)
    \/ ReservationPatchUpdate(r)
    \/ ChatPostHandler(r, SampleLists)
    \/ ToolCreateReservation(r)
    \/ ToolVerifyPayment(r)
    \/ ToolStateless(r, {"authorizePayment"})
    \/ onFinish(r, SampleResponses)
    \/ StreamAborts(r)
    \/ ChatDeleteFetch(r)
    \/ ChatDeleteDelete(r)
    \/ HistoryGet(r)

Spec == Init /\ [][Next]_vars

\* The chat route alone, one request after the other, over every body up to
\* MaxMsgs messages, every response and every tool.  POST "/" is at the
\* middleware's own path, so usePrefix plays no part.
InitChat == Init /\ ~usePrefix

NextChat ==
  \/ Dispatch(1, {"chatPost"}, MaxChatRequests)
  \/ ChatPostHandler(1, MessageLists)
  \/ ToolCreateReservation(1)
  \/ ToolVerifyPayment(1)
  \/ ToolStateless(1, StatelessTools)
  \/ onFinish(1, Responses)
  \/ StreamAborts(1)

SpecChat == InitChat /\ [][NextChat]_vars
\* ------------------------------------------------------------------ claims
Handlers == {"chatPost", "chatDelete", "reservationGet", "reservationPatch"}
Count(seq, x) == Cardinality({i \in 1..Len(seq) : seq[i] = x})
\* The request's handler has answered or, for the stream, has started to.
Answered(q) == q.status # 0

\* C1: every operation that uses a Reservation or a Chat compares the
\* resource's userId with the session user's id first, and when they differ
\* it ends in a 401, returns none of the resource's data and changes nothing.
\* (TRUE of a request whose resource belongs to its session user.)
C1_OwnershipChecked ==
  \A r \in Reqs :
    LET q == req[r]
    IN /\ (q.pc = "done" /\ q.fetched.exists /\ q.fetched.userId # q.session.id)
            => (q.status = 401 /\ q.body = NoBody /\ q.writes = <<>>)
       /\ (q.pc = "done" /\ q.fetchedChat.exists
             /\ q.fetchedChat.userId # q.session.id)
            => (q.status = 401 /\ q.body = NoBody /\ q.writes = <<>>)
       /\ (q.lastTool.tool = "verifyPayment" /\ reservations[q.lastTool.id].exists
             /\ reservations[q.lastTool.id].userId # q.session.id)
            => q.lastTool.error = "Unauthorized"

\* C2: a request without a valid session (none, or one without a user) gets
\* a 401 from chat POST, chat DELETE, reservation GET and reservation PATCH,
\* and the handler calls none of saveChat, deleteChatById, createReservation,
\* updateReservation.  (A body the validator rejects never reaches the
\* handler and is left out.)
C2_NoSessionIs401 ==
  \A r \in Reqs :
    LET q == req[r]
    IN (q.kind \in Handlers /\ NoSessionUser(q.session) /\ Answered(q)
          /\ q.body # [t |-> "validation"])
         => (q.status = 401 /\ q.writes = <<>>)

\* C3: a PATCH by the owner of a reservation whose stored flag is true gets a
\* 409 and leaves the flag true, whatever the body.
C3_PaidIs409 ==
  \A r \in Reqs :
    LET q == req[r]
    IN (q.kind = "reservationPatch" /\ q.pc = "done" /\ q.fetched.exists
          /\ q.fetched.userId = q.session.id /\ q.fetched.hasCompletedPayment)
         => (q.status = 409 /\ reservations[q.id].hasCompletedPayment)

\* C4: a reservation GET or PATCH by a signed-in user who is not the owner
\* gets a 401, no reservation data, and leaves the reservation unchanged.
C4_NotOwnerIs401 ==
  \A r \in Reqs :
    LET q == req[r]
    IN (q.kind \in {"reservationGet", "reservationPatch"} /\ q.pc = "done"
          /\ ~NoSessionUser(q.session) /\ q.fetched.exists
          /\ q.fetched.userId # q.session.id)
         => (q.status = 401 /\ q.body = NoBody /\ q.writes = <<>>)

Upper(ch) ==
  CASE ch = "v" -> "V" [] ch = "e" -> "E" [] ch = "r" -> "R"
    [] ch = "c" -> "C" [] ch = "l" -> "L" [] OTHER -> ch
EqualsIgnoringCase(w, lower) ==
  /\ Len(w) = Len(lower)
  /\ \A i \in 1..Len(w) : w[i] \in {lower[i], Upper(lower[i])}

\* C5: a PATCH by the owner on an unpaid reservation: a magicWord equal to
\* "vercel" ignoring case gets 200, the updated reservation, and the stored
\* flag true; any other magicWord string gets 400 and this request does not
\* set the flag.
C5_MagicWord ==
  \A r \in Reqs :
    LET q == req[r]
    IN (q.kind = "reservationPatch" /\ q.pc = "done" /\ q.fetched.exists
          /\ q.fetched.userId = q.session.id /\ ~q.fetched.hasCompletedPayment
          /\ q.json.present)
         => IF EqualsIgnoringCase(q.json.word, Vercel)
              THEN /\ q.status = 200
                   /\ q.body = [t |-> "reservation", id |-> q.id,
                                row |-> [q.fetched EXCEPT !.hasCompletedPayment = TRUE]]
                   /\ reservations[q.id].hasCompletedPayment
              ELSE q.status = 400 /\ q.writes = <<>>

\* C6: the payment flag only ever moves unpaid -> paid: a stored reservation
\* stays stored, a paid one stays paid, and the only step that changes the
\* flag of a stored reservation is the update of a reservation PATCH whose
\* magicWord passed the check.
C6_PaymentOneWay ==
  [][\A id \in ResIds :
       /\ reservations[id].exists => reservations'[id].exists
       /\ (reservations[id].exists /\ reservations[id].hasCompletedPayment)
            => reservations'[id].hasCompletedPayment
       /\ (reservations[id].exists
             /\ reservations'[id].hasCompletedPayment
                  # reservations[id].hasCompletedPayment)
            => \E r \in Reqs :
                 /\ req[r].kind = "reservationPatch" /\ req[r].id = id
                 /\ req[r].pc = "fetched" /\ req'[r].pc = "done"
                 /\ req[r].json.present
                 /\ EqualsIgnoringCase(req[r].json.word, Vercel)
                 /\ req[r].fetched.userId = req[r].session.id
                 /\ req'[r].status = 200]_vars

\* C6 witness: a PATCH has moved a reservation from unpaid to paid.
C6_Witness ==
  \E r \in Reqs :
    /\ req[r].kind = "reservationPatch" /\ req[r].status = 200
    /\ ~req[r].fetched.hasCompletedPayment
    /\ reservations[req[r].id].hasCompletedPayment

\* C7: the session guard runs before every handler, so that the handler reads
\* the session the guard resolved, and the session is resolved exactly once
\* during a request.  Stated for the router under which use("/") covers every
\* route of the group, the one the claim supposes.
C7_ResolvedOnce ==
  usePrefix =>
    \A r \in Reqs :
      req[r].pc # "idle"
        => (req[r].session.kind # "undefined" /\ req[r].authCalls = 1)

\* C10: whatever the interleaving of PATCH requests on one unpaid reservation
\* by its owner with a valid magic word, updateReservation runs at most once
\* for it.
C10_UpdatedAtMostOnce == \A id \in ResIds : updateCalls[id] <= 1
NonEmptyContent(m) == m.content # <<>>
SessionHasUserId(session) == session.kind = "session" /\ session.user /\ session.id # ""

\* C8: in chat POST saveChat is invoked only once the generation has
\* finished and only if the request's session carries a user id; it is then
\* called once, with the request's chat id, that user id, and the request's
\* messages without the empty-content ones, in their order, followed by the
\* response messages; a failing saveChat leaves the streamed response as it
\* was.
C8_SaveChatOnFinish ==
  \A r \in Reqs :
    LET q == req[r]
    IN /\ Len(q.saved) <= 1
       /\ Count(q.writes, "saveChat") = Len(q.saved)
       /\ q.saved # <<>>
            => /\ q.kind = "chatPost" /\ q.finished
               /\ SessionHasUserId(q.session)
               /\ q.saved[1].args.id = q.chatId
               /\ q.saved[1].args.userId = q.session.id
               /\ q.saved[1].args.messages
                    = SelectSeq(q.messages, NonEmptyContent) \o q.responseMessages
               /\ q.status = 200 /\ q.body = [t |-> "stream"]
       /\ (q.kind = "chatPost" /\ q.finished /\ SessionHasUserId(q.session))
            => Len(q.saved) = 1
       /\ (q.kind = "chatPost" /\ q.finished) => (q.pc = "done" /\ q.status = 200)

\* C8 witness: a chat POST whose body held an empty-content message and a
\* kept one has finished, and its saveChat call failed.
C8_Witness ==
  \E r \in Reqs :
    /\ req[r].saved # <<>> /\ ~req[r].saved[1].ok
    /\ Len(req[r].coreMessages) > 0
    /\ Len(req[r].coreMessages) < Len(req[r].messages)
    /\ req[r].status = 200

\* C9: the createReservation tool stores a new reservation only if the
\* session it resolves when it runs has a user with an id, stores it under
\* that user id with the computed price, and returns it with that price;
\* otherwise it stores nothing and returns the "not signed in" error value.
C9_CreateReservationOwner ==
  [][\A r \in Reqs :
       (req'[r].toolCalls = req[r].toolCalls + 1
          /\ req'[r].lastTool.tool = "createReservation")
         => LET ev == req'[r].lastTool
            IN IF SessionHasUserId(ev.session)
                 THEN /\ ev.persisted /\ ev.error = ""
                      /\ ev.id \in ResIds /\ ~reservations[ev.id].exists
                      /\ reservations' =
                           [reservations EXCEPT ![ev.id] =
                              [exists |-> TRUE, userId |-> ev.session.id,
                               hasCompletedPayment |-> FALSE,
                               totalPriceInUSD |-> ev.price]]
                      /\ ev.price \in Prices
                 ELSE /\ ~ev.persisted /\ ev.error = NotSignedIn
                      /\ reservations' = reservations
                      /\ req'[r].writes = req[r].writes]_vars

\* C9 witness: a reservation is stored under a user, and a later chat POST
\* of a signed-in user ran the tool after its session had gone: nothing new
\* was stored and the tool returned the error value.
C9_Witness ==
  \E r \in Reqs :
    /\ req[r].lastTool.tool = "createReservation"
    /\ req[r].lastTool.error = NotSignedIn
    /\ SessionHasUserId(req[r].session)
    /\ \E id \in ResIds : reservations[id].exists /\ reservations[id].userId \in Users
=============================================================================
